---- MODULE Spec2Model ----
(***************************************************************************)
(* j1939logger: the packet repository (packet_repo.rs), the DBC table      *)
(* model built on it (dbc_table.rs) and the threads of main.rs that use    *)
(* them.  Durations are counted in ticks; a packet's `time` is the value   *)
(* of p.time().unwrap_or_default().                                         *)
(***************************************************************************)
EXTENDS Integers, Sequences, FiniteSets, TLC

VARIABLES
    packets,      \* PacketRepo.packets: every packet, in arrival order
    map,          \* PacketRepo.map: id & 0x3FFFFFF -> packets of that id
    writer,       \* the packet copy thread: None, or Some(packet) while it
                  \* holds the write lock of the repository inside push
    time,         \* DbcModel.time: the cursor
    line_length,  \* DbcModel.line_length: the spark line's duration
    pgns,         \* DbcModel.pgns: the PGN definitions in row order
    rows,         \* DbcModel.rows: the active rows
    filter_i,     \* remove_missing: index of the next row to test, 0 when idle
    new_rows,     \* remove_missing: the rows kept so far
    sorting,      \* sort: None, or Some of the column, the order, the index
                  \* of the next row whose key is taken and the keys taken
    reader,       \* a reader of the repository on the GUI thread: None, or
                  \* Some of its path and its position on it
    pushed,       \* history: the packets handed to push since the last clear
    seen,         \* history: None, or Some of the list and the index the
                  \* reader saw when it last took the read lock
    toggles,      \* history: the parity of the calls of toggle_missing
    loaded,       \* history: the outcome of each call of load_dbc_window
    connection,   \* the shared connection: None, or Some adapter
    mutex,        \* the mutex of the connection: "free", or "copy" while the
                  \* packet copy thread holds its guard
    copy_thread,  \* the packet copy thread: "sleeping" or "receiving"
    request       \* a Connection menu callback of the GUI thread waiting for
                  \* the mutex: None, or Some of what it does next

vars == <<packets, map, writer, time, line_length, pgns, rows, filter_i, new_rows,
          sorting, reader, pushed, seen, toggles, loaded, connection, mutex,
          copy_thread, request>>

(* The variables of main outside the repository and the table. *)
app_vars == <<loaded, connection, mutex, copy_thread, request>>

---------------------------------------------------------------------------
(* Bounds of the model. *)
MaxPackets == 3
MaxTablePackets == 2
MaxTime == 2
MaxLineLength == 2
MaxSortPackets == 2
MaxLoads == 2

(* Program constants. *)
IdMask == 67108863
DurationMax == 2147483647
DefaultLineLength == 10

---------------------------------------------------------------------------
(* Option<T> *)
None == <<>>
Some(x) == <<x>>

(* A 29 bit J1939 identifier: priority, PGN, source address. *)
J1939Id(priority, pgn, sa) == priority * 67108864 + pgn * 256 + sa

(* packet.id() & 0x3FFFFFF *)
normalize(id) == id % (IdMask + 1)

(* The identifiers the bus delivers: PGN FEF1 from source address FE with  *)
(* priority 6 and with priority 3, and from source address 00.             *)
FrameIds == {J1939Id(6, 65265, 254), J1939Id(3, 65265, 254), J1939Id(6, 65265, 0)}

(* A payload of the wrong length, and the raw values of complete payloads. *)
ShortPayload == -1
Payloads == {100}

Frames == [id : FrameIds, time : 0..MaxTime, payload : Payloads]

SourceAddresses == {0, 254}

Cursors == (0..MaxTime) \cup {DurationMax}
LineLengths == 1..MaxLineLength

---------------------------------------------------------------------------
(* PacketRepo *)

EmptyMap == [k \in {} |-> <<>>]

(* self.map.entry(packet.id() & 0x3FFFFFF).or_default().push(packet),      *)
(* with the key left unmasked.                                             *)
push_entry_unmasked(m, packet) ==
    LET key == packet.id
    IN [k \in DOMAIN m \cup {key} |->
            IF k = key
            THEN Append(IF k \in DOMAIN m THEN m[k] ELSE <<>>, packet)
            ELSE m[k]]

(* ... with the packet put in front of its group. *)
push_entry_front(m, packet) ==
    LET key == normalize(packet.id)
    IN [k \in DOMAIN m \cup {key} |->
            IF k = key
            THEN <<packet>> \o (IF k \in DOMAIN m THEN m[k] ELSE <<>>)
            ELSE m[k]]

push_entry(m, packet) ==
    LET key == normalize(packet.id)
    IN [k \in DOMAIN m \cup {key} |->
            IF k = key
            THEN Append(IF k \in DOMAIN m THEN m[k] ELSE <<>>, packet)
            ELSE m[k]]

get_for(id) == IF id \in DOMAIN map THEN Some(map[id]) ELSE None

last_time == IF packets = <<>> THEN 0 ELSE packets[Len(packets)].time

first_time == IF packets = <<>> THEN 0 ELSE packets[1].time

---------------------------------------------------------------------------
(* The packet copy thread of main: packets.write().unwrap().push(p).       *)
(* The write lock is taken, PacketRepo::push runs its two statements, the  *)
(* lock is released.                                                       *)

(* The step the reader is at. *)
reader_at == reader[1].steps[reader[1].pc]

(* A read guard of the repository is alive. *)
read_locked == reader # None /\ reader_at[2]

(* The GUI thread is between callbacks. *)
gui_idle == filter_i = 0 /\ sorting = None /\ reader = None

(* push that puts the packet at the front of the list. *)
push_packets_front(packet) ==
    /\ writer = None
    /\ ~read_locked
    /\ Len(packets) < MaxPackets
    /\ packets' = <<packet>> \o packets
    /\ writer' = Some(packet)
    /\ pushed' = Append(pushed, packet)
    /\ UNCHANGED <<map, time, line_length, pgns, rows, filter_i, new_rows>>
    /\ UNCHANGED <<sorting, reader, seen>>
    /\ UNCHANGED <<toggles, app_vars>>

push_packets(packet) ==
    /\ writer = None
    /\ ~read_locked
    /\ Len(packets) < MaxPackets
    /\ packets' = Append(packets, packet)
    /\ writer' = Some(packet)
    /\ pushed' = Append(pushed, packet)
    /\ UNCHANGED <<map, time, line_length, pgns, rows, filter_i, new_rows>>
    /\ UNCHANGED <<sorting, reader, seen>>
    /\ UNCHANGED <<toggles, app_vars>>

push_map ==
    /\ writer # None
    /\ map' = push_entry(map, writer[1])
    /\ writer' = None
    /\ UNCHANGED <<packets, time, line_length, pgns, rows, filter_i, new_rows>>
    /\ UNCHANGED <<sorting, reader, pushed, seen>>
    /\ UNCHANGED <<toggles, app_vars>>

(* clear() that empties the list and leaves the index. *)
clear_list_only ==
    /\ writer = None
    /\ gui_idle
    /\ packets' = <<>>
    /\ pushed' = <<>>
    /\ seen' = None
    /\ UNCHANGED <<map, writer, time, line_length, pgns, rows, filter_i, new_rows>>
    /\ UNCHANGED <<sorting, reader>>
    /\ UNCHANGED <<toggles, app_vars>>

(* The Clear menu callback of main: packets.write().clear(), on the GUI    *)
(* thread, which is not inside remove_missing then.                        *)
clear ==
    /\ writer = None
    /\ gui_idle
    /\ packets' = <<>>
    /\ map' = EmptyMap
    /\ pushed' = <<>>
    /\ seen' = None
    /\ UNCHANGED <<writer, time, line_length, pgns, rows, filter_i, new_rows>>
    /\ UNCHANGED <<sorting, reader>>
    /\ UNCHANGED <<toggles, app_vars>>

---------------------------------------------------------------------------
(* DbcModel *)

(* The time slider's callback: set_time(Duration::MAX) or set_time(val). *)
set_time(t) ==
    /\ gui_idle
    /\ time' = t
    /\ UNCHANGED <<packets, map, writer, line_length, pgns, rows, filter_i, new_rows>>
    /\ UNCHANGED <<sorting, reader, pushed, seen>>
    /\ UNCHANGED <<toggles, app_vars>>

(* The chart duration slider's callback. *)
set_line_length(l) ==
    /\ gui_idle
    /\ line_length' = l
    /\ UNCHANGED <<packets, map, writer, time, pgns, rows, filter_i, new_rows>>
    /\ UNCHANGED <<sorting, reader, pushed, seen>>
    /\ UNCHANGED <<toggles, app_vars>>

(* v.iter().rev().find(|p| p.time().unwrap_or_default() <= t): the index   *)
(* found, scanning down from i; 0 when there is none.                      *)
RECURSIVE rev_find(_, _, _)
rev_find(v, i, t) ==
    IF i = 0 THEN 0
    ELSE IF v[i].time <= t THEN i
    ELSE rev_find(v, i - 1, t)

(* v.iter().find(..) without rev(): the first packet at or before t. *)
RECURSIVE find_first(_, _, _)
find_first(v, i, t) ==
    IF i > Len(v) THEN 0
    ELSE IF v[i].time <= t THEN i
    ELSE find_first(v, i + 1, t)

last_packet_index_forward(id) ==
    IF id \in DOMAIN map THEN find_first(map[id], 1, time) ELSE 0

(* rev().find(|p| p.time() < t): the bound taken strictly. *)
RECURSIVE rev_find_strict(_, _, _)
rev_find_strict(v, i, t) ==
    IF i = 0 THEN 0
    ELSE IF v[i].time < t THEN i
    ELSE rev_find_strict(v, i - 1, t)

last_packet_index_strict(id) ==
    IF id \in DOMAIN map THEN rev_find_strict(map[id], Len(map[id]), time) ELSE 0

(* The first, not the last, of the packets that share the timestamp found. *)
last_packet_index_first_tie(id) ==
    IF id \in DOMAIN map
    THEN LET v == map[id]
             i == rev_find(v, Len(v), time)
         IN IF i = 0 THEN 0
            ELSE CHOOSE j \in 1..i :
                    /\ v[j].time = v[i].time
                    /\ \A k \in 1..(j - 1) : v[k].time # v[i].time
    ELSE 0

(* The index, in the group of id, of the packet that last_packet returns;  *)
(* 0 when it returns None.                                                 *)
last_packet_index(id) ==
    IF id \in DOMAIN map THEN rev_find(map[id], Len(map[id]), time) ELSE 0

last_packet(id) ==
    IF last_packet_index(id) = 0 THEN None
    ELSE Some(map[id][last_packet_index(id)])

(* Row::decode: spn.parse_message(payload) as f64. *)
decode(row, packet) ==
    IF packet.payload = ShortPayload THEN None
    ELSE Some(packet.payload * row.spn.scale + row.spn.offset)

(* slice::partition_point(|p| p.time().unwrap_or_default() < bound): the   *)
(* binary search of the standard library, on the 0-based range left..right *)
RECURSIVE partition_search(_, _, _, _)
partition_search(v, left, right, bound) ==
    IF left >= right THEN left
    ELSE LET mid == left + (right - left) \div 2
         IN IF v[mid + 1].time < bound
            THEN partition_search(v, mid + 1, right, bound)
            ELSE partition_search(v, left, mid, bound)

partition_point(v, bound) == partition_search(v, 0, Len(v), bound)

(* The end of the range taken from the repository alone. *)
chart_end_ignores_cursor == last_time

(* cell_delegate, column 5: the bounds of the time range. *)
chart_end == IF last_time <= time THEN last_time ELSE time

(* The start of the range taken from the cursor, not from the end. *)
chart_start_from_cursor == IF time > line_length THEN time - line_length ELSE 0

chart_start == IF chart_end > line_length THEN chart_end - line_length ELSE 0

start_index(v) == partition_point(v, chart_start)

end_index(v) == partition_point(v, chart_end)

(* .iter().filter_map(|p| row.decode(p)).collect() *)
RECURSIVE filter_map_decode(_, _)
filter_map_decode(row, v) ==
    IF v = <<>> THEN <<>>
    ELSE (IF decode(row, Head(v)) = None THEN <<>> ELSE decode(row, Head(v)))
         \o filter_map_decode(row, Tail(v))

(* packets[start_index..end_index] panics when start_index > end_index. *)
SlicePanic == <<"panic", "slice index starts after its end">>

(* packets[start_index..end_index] of a group v. *)
chart_slice(v) ==
    IF start_index(v) > end_index(v) THEN SlicePanic
    ELSE SubSeq(v, start_index(v) + 1, end_index(v))

(* cell_delegate(row, 5) for a row value: None, Some(data) or the panic. *)
chart(row) ==
    LET id == normalize(row.pgn.id)
    IN IF get_for(id) = None \/ get_for(id) = Some(<<>>) THEN None
       ELSE IF start_index(map[id]) > end_index(map[id]) THEN SlicePanic
       ELSE Some(filter_map_decode(row, chart_slice(map[id])))

(* calc_rows: one row per PGN and SPN, in the order of the definitions. *)
RECURSIVE calc_rows(_)
calc_rows(defs) ==
    IF defs = <<>> THEN <<>>
    ELSE [i \in 1..Len(Head(defs).spns) |->
              [spn |-> Head(defs).spns[i], pgn |-> Head(defs)]]
         \o calc_rows(Tail(defs))

(* The DBC file of the model: PGN FEF1 of source address FE with two SPNs, *)
(* and of source address 00 with one.                                      *)
Spn(name, scale, offset, units) ==
    [name |-> name, description |-> name, scale |-> scale, offset |-> offset,
     units |-> units]

DbcFile ==
    << [id |-> J1939Id(6, 65265, 254),
        spns |-> <<Spn("FuelRate", 1, 0, "l/h"), Spn("Throttle", 2, 1, "%")>>],
       [id |-> J1939Id(6, 65265, 0),
        spns |-> <<Spn("FuelRate", 1, 0, "l/h")>>] >>

(* PgnDefinition::sa() and pgn(): the low byte, and the 16 bits above it. *)
sa(id) == id % 256

pgn(id) == (id \div 256) % 65536

(* The texts of the value cell: "no packet", "unable to parse", or         *)
(* format!("{:0.3} {}", value, units), here the value in thousandths and   *)
(* the units.                                                              *)
NoPacket == <<"no packet">>

UnableToParse == <<"unable to parse">>

(* spn_value that shows a packet it cannot parse as no packet. *)
spn_value_parse_error_as_missing(row) ==
    IF last_packet(normalize(row.pgn.id)) = None THEN NoPacket
    ELSE LET value == decode(row, last_packet(normalize(row.pgn.id))[1])
         IN IF value = None THEN NoPacket
            ELSE <<value[1] * 1000, row.spn.units>>

spn_value(row) ==
    IF last_packet(normalize(row.pgn.id)) = None THEN NoPacket
    ELSE LET value == decode(row, last_packet(normalize(row.pgn.id))[1])
         IN IF value = None THEN UnableToParse
            ELSE <<value[1] * 1000, row.spn.units>>

(* p.to_string() of the packet found, or "no packet". *)
packet_string(pgn_def) ==
    IF last_packet(normalize(pgn_def.id)) = None THEN NoPacket
    ELSE <<"packet", last_packet(normalize(pgn_def.id))[1]>>

(* SimpleModel::cell for a row index 1..Len(rows) and a column 0..7. *)
cell(row, col) ==
    CASE col = 0 -> Some(<<"{:08X}", rows[row].pgn.id>>)
      [] col = 1 -> Some(<<"{:04X}", pgn(rows[row].pgn.id)>>)
      [] col = 2 -> Some(<<"{:02X}", sa(rows[row].pgn.id)>>)
      [] col = 3 -> Some(<<rows[row].spn.name>>)
      [] col = 4 -> Some(spn_value(rows[row]))
      [] col = 6 -> Some(packet_string(rows[row].pgn))
      [] col = 7 -> Some(<<rows[row].spn.description>>)
      [] OTHER -> None

(* The closure of map_address with the mask 0xFFFF0000. *)
map_pgn_wide_mask(pgn_def, f, t) ==
    IF pgn_def.id % 256 = f
    THEN [pgn_def EXCEPT !.id = (pgn_def.id \div 65536) * 65536 + t]
    ELSE pgn_def

(* The closure of map_address: 0xFFFFFF00 & k | t when 0xFF & k == f. *)
map_pgn(pgn_def, f, t) ==
    IF pgn_def.id % 256 = f
    THEN [pgn_def EXCEPT !.id = (pgn_def.id \div 256) * 256 + t]
    ELSE pgn_def

(* The Update button of the Map Address window. *)
map_address(from, to) ==
    /\ gui_idle
    /\ pgns' = [i \in 1..Len(pgns) |-> map_pgn(pgns[i], from, to)]
    /\ UNCHANGED <<packets, map, writer, time, line_length, rows, filter_i, new_rows>>
    /\ UNCHANGED <<sorting, reader, pushed, seen>>
    /\ UNCHANGED <<toggles, app_vars>>

(* The Hide Inactive menu callback: toggle_missing.  remove_missing tests  *)
(* the rows one by one, each under a read lock of its own.                 *)
toggle_missing ==
    /\ gui_idle
    /\ IF Len(calc_rows(pgns)) = Len(rows)
       THEN IF rows = <<>>
            THEN UNCHANGED <<rows, filter_i, new_rows>>
            ELSE filter_i' = 1 /\ new_rows' = <<>> /\ UNCHANGED rows
       ELSE rows' = calc_rows(pgns) /\ UNCHANGED <<filter_i, new_rows>>
    /\ UNCHANGED <<packets, map, writer, time, line_length, pgns>>
    /\ UNCHANGED <<sorting, reader, pushed, seen>>
    /\ UNCHANGED app_vars

(* One evaluation of the filter closure of remove_missing; after the last  *)
(* row, self.rows = new_rows.                                              *)
remove_missing_step ==
    /\ filter_i > 0
    /\ writer = None
    /\ LET kept == IF get_for(normalize(rows[filter_i].pgn.id)) # None
                   THEN Append(new_rows, rows[filter_i])
                   ELSE new_rows
       IN IF filter_i = Len(rows)
          THEN rows' = kept /\ new_rows' = <<>> /\ filter_i' = 0
          ELSE new_rows' = kept /\ filter_i' = filter_i + 1 /\ UNCHANGED rows
    /\ UNCHANGED <<packets, map, writer, time, line_length, pgns>>
    /\ UNCHANGED <<sorting, reader, pushed, seen>>
    /\ UNCHANGED <<toggles, app_vars>>

(* The Hide Inactive menu callback, its calls of toggle_missing counted. *)
hide_inactive ==
    /\ toggle_missing
    /\ toggles' = 1 - toggles

---------------------------------------------------------------------------
(* SimpleModel::sort *)

(* Order of the table widget; sort returns at once for Order::None. *)
Orders == {"Ascending", "Descending", "None"}

Columns == 0..7

(* The closures sort hands to sort_with as extract_fn, by column. *)
extract_fn(column, row) ==
    CASE column = 0 -> row.pgn.id
      [] column = 1 -> pgn(row.pgn.id)
      [] column = 2 -> sa(row.pgn.id)
      [] column = 3 -> row.spn.name
      [] column \in {4, 5} -> spn_value(row)
      [] column = 6 -> packet_string(row.pgn)
      [] column = 7 -> row.spn.description

(* The bytes of the strings of the model; String compares by them. *)
str_bytes(s) ==
    CASE s = "FuelRate" -> <<70, 117, 101, 108, 82, 97, 116, 101>>
      [] s = "Throttle" -> <<84, 104, 114, 111, 116, 116, 108, 101>>
      [] s = "l/h" -> <<108, 47, 104>>
      [] s = "%" -> <<37>>
      [] s = "no packet" -> <<110, 111, 32, 112, 97, 99, 107, 101, 116>>
      [] s = "unable to parse" ->
            <<117, 110, 97, 98, 108, 101, 32, 116, 111, 32, 112, 97, 114, 115, 101>>

(* The decimal digits of n. *)
RECURSIVE decimal(_)
decimal(n) ==
    IF n < 10 THEN <<48 + n>> ELSE Append(decimal(n \div 10), 48 + (n % 10))

(* format!("{:0.3} {}", value, units) of a value in thousandths. *)
value_bytes(text) ==
    decimal(text[1] \div 1000)
    \o <<46, 48 + ((text[1] \div 100) % 10), 48 + ((text[1] \div 10) % 10),
         48 + (text[1] % 10), 32>>
    \o str_bytes(text[2])

(* p.to_string() of the can_adapter crate, taken as the decimal fields of  *)
(* the packet: the time, the id and the payload.                           *)
packet_bytes(p) ==
    decimal(p.time) \o <<32>> \o decimal(p.id) \o <<32>>
    \o (IF p.payload = ShortPayload THEN <<>> ELSE decimal(p.payload))

(* What Ord compares of a key of the column: the number, or the bytes of   *)
(* the string.                                                             *)
key_bytes(column, key) ==
    CASE column \in {0, 1, 2} -> <<key>>
      [] column \in {3, 7} -> str_bytes(key)
      [] column \in {4, 5} ->
            IF Len(key) = 1 THEN str_bytes(key[1]) ELSE value_bytes(key)
      [] column = 6 ->
            IF Len(key) = 1 THEN str_bytes(key[1]) ELSE packet_bytes(key[2])

(* a <= b in the lexicographic order of sequences of numbers. *)
RECURSIVE lex_le(_, _)
lex_le(a, b) ==
    IF a = <<>> THEN TRUE
    ELSE IF b = <<>> THEN FALSE
    ELSE IF Head(a) # Head(b) THEN Head(a) < Head(b)
    ELSE lex_le(Tail(a), Tail(b))

(* values.get(a).cmp(&values.get(b)) is not Greater. *)
cmp_le(column, a, b) == lex_le(key_bytes(column, a), key_bytes(column, b))

(* rows.sort_by(|a, b| values.get(a).cmp(&values.get(b))): the stable sort *)
(* of the standard library, each row placed after the rows before it in    *)
(* the list whose key is not greater.                                      *)
RECURSIVE sort_by(_, _, _)
sort_by(rws, values, column) ==
    IF rws = <<>> THEN <<>>
    ELSE LET row == rws[Len(rws)]
             front == sort_by(SubSeq(rws, 1, Len(rws) - 1), values, column)
             n == Cardinality({i \in 1..Len(front) :
                                  cmp_le(column, values[front[i]], values[row])})
         IN SubSeq(front, 1, n) \o <<row>> \o SubSeq(front, n + 1, Len(front))

(* sort_with that takes the key of a row when it compares it. *)
sort_with_live_keys(the_rows, values, column) ==
    sort_by(the_rows,
            [row \in {the_rows[i] : i \in 1..Len(the_rows)} |-> extract_fn(column, row)],
            column)

(* sort_with that keeps one row for each key. *)
sort_with_one_row_per_key(the_rows, values, column) ==
    LET sorted == sort_by(the_rows, values, column)
    IN SelectSeq(sorted,
                 LAMBDA row :
                     \A n \in 1..Len(sorted) :
                         (cmp_le(column, values[sorted[n]], values[row])
                          /\ cmp_le(column, values[row], values[sorted[n]]))
                         => (CHOOSE k \in 1..Len(sorted) : sorted[k] = row) <= n)

(* sort_with, after `values` has been collected. *)
sort_with(the_rows, values, column) == sort_by(the_rows, values, column)

(* Vec::reverse *)
reverse(v) == [i \in 1..Len(v) |-> v[Len(v) + 1 - i]]

(* self.rows at the end of sort. *)
sorted_rows(rws, values, column, order) ==
    IF order = "Descending" THEN reverse(sort_with(rws, values, column))
    ELSE sort_with(rws, values, column)

(* The table calls sort(column, order). *)
sort(column, order) ==
    /\ gui_idle
    /\ IF order = "None" THEN UNCHANGED sorting
       ELSE sorting' = Some([column |-> column, order |-> order, i |-> 1,
                             values |-> <<>>])
    /\ UNCHANGED <<packets, map, writer, time, line_length, pgns, rows, filter_i, new_rows>>
    /\ UNCHANGED <<reader, pushed, seen>>
    /\ UNCHANGED <<toggles, app_vars>>

(* sort_with: the_rows.iter().map(|row| (row, extract_fn(row))), one row.  *)
(* The columns 4, 5 and 6 take a read lock in last_packet.                 *)
sort_key ==
    /\ sorting # None
    /\ sorting[1].i <= Len(rows)
    /\ sorting[1].column \in {4, 5, 6} => writer = None
    /\ sorting' = Some([sorting[1] EXCEPT
                          !.i = @ + 1,
                          !.values = (rows[sorting[1].i] :>
                                         extract_fn(sorting[1].column, rows[sorting[1].i]))
                                     @@ @])
    /\ UNCHANGED <<packets, map, writer, time, line_length, pgns, rows, filter_i, new_rows>>
    /\ UNCHANGED <<reader, pushed, seen>>
    /\ UNCHANGED <<toggles, app_vars>>

(* sort_with: rows.sort_by(..); sort: the reverse for Descending, and the  *)
(* assignment to self.rows.                                                *)
sort_rows ==
    /\ sorting # None
    /\ sorting[1].i > Len(rows)
    /\ rows' = sorted_rows(rows, sorting[1].values, sorting[1].column, sorting[1].order)
    /\ sorting' = None
    /\ UNCHANGED <<packets, map, writer, time, line_length, pgns, filter_i, new_rows>>
    /\ UNCHANGED <<reader, pushed, seen>>
    /\ UNCHANGED <<toggles, app_vars>>

---------------------------------------------------------------------------
(* The readers of the repository on the GUI thread. *)

(* A path is the sequence of its steps: the work of the step, and whether  *)
(* a read guard of the repository is alive during it.  The steps are those *)
(* the path takes for what its lookup finds.                               *)

(* spn_value: the guard is a temporary of last_packet; row.decode and      *)
(* format! run on the packet last_packet returned.                         *)
spn_value_steps(row) ==
    IF last_packet(normalize(row.pgn.id)) = None THEN << <<"lookup", TRUE>> >>
    ELSE IF decode(row, last_packet(normalize(row.pgn.id))[1]) = None
    THEN << <<"lookup", TRUE>>, <<"decode", FALSE>> >>
    ELSE << <<"lookup", TRUE>>, <<"decode", FALSE>>, <<"format", FALSE>> >>

(* packet_string: last_packet, then p.to_string(). *)
packet_string_steps(row) ==
    IF last_packet(normalize(row.pgn.id)) = None THEN << <<"lookup", TRUE>> >>
    ELSE << <<"lookup", TRUE>>, <<"format", FALSE>> >>

(* cell_delegate, column 5: `repo` lives to the end of the function, over  *)
(* the filter_map of row.decode on the packets of the slice.               *)
cell_delegate_steps(row) ==
    LET id == normalize(row.pgn.id)
    IN IF get_for(id) = None \/ get_for(id) = Some(<<>>)
       THEN << <<"lookup", TRUE>> >>
       ELSE IF start_index(map[id]) >= end_index(map[id])
       THEN << <<"lookup", TRUE>> >>
       ELSE << <<"lookup", TRUE>>, <<"decode", TRUE>> >>

(* The filter closure of remove_missing: get_for(..).is_some(). *)
remove_missing_steps(row) == << <<"lookup", TRUE>> >>

(* The Save... callback: save_log(list.read().unwrap().packets()), the     *)
(* guard a temporary of the call statement; a file is chosen.              *)
save_log_steps(row) ==
    IF packets = <<>> THEN << <<"lookup", TRUE>>, <<"file output", TRUE>> >>
    ELSE << <<"lookup", TRUE>>, <<"format", TRUE>>, <<"file output", TRUE>> >>

(* The Copy callback: `read` lives over the format! of every packet. *)
copy_steps(row) ==
    IF packets = <<>> THEN << <<"lookup", TRUE>> >>
    ELSE << <<"lookup", TRUE>>, <<"format", TRUE>> >>

ReaderPaths(row) ==
    [spn_value |-> spn_value_steps(row),
     packet_string |-> packet_string_steps(row),
     cell_delegate |-> cell_delegate_steps(row),
     remove_missing |-> remove_missing_steps(row),
     save_log |-> save_log_steps(row),
     copy |-> copy_steps(row)]

ReaderPathNames == {"spn_value", "packet_string", "cell_delegate", "remove_missing",
                    "save_log", "copy"}

(* A path begins for the row of index i: self.packets.read().unwrap(),     *)
(* which waits for the writer to release the lock; the reader sees the     *)
(* list and the index.                                                     *)
reader_begin(path, i) ==
    /\ gui_idle
    /\ writer = None
    /\ reader' = Some([path |-> path, pc |-> 1, steps |-> ReaderPaths(rows[i])[path]])
    /\ seen' = Some([packets |-> packets, map |-> map])
    /\ UNCHANGED <<packets, map, writer, time, line_length, pgns, rows, filter_i, new_rows>>
    /\ UNCHANGED <<sorting, pushed>>
    /\ UNCHANGED <<toggles, app_vars>>

(* The step of the path ends; after the last one the callback returns. *)
reader_step ==
    /\ reader # None
    /\ reader' = IF reader[1].pc < Len(reader[1].steps)
                 THEN Some([reader[1] EXCEPT !.pc = @ + 1])
                 ELSE None
    /\ UNCHANGED <<packets, map, writer, time, line_length, pgns, rows, filter_i, new_rows>>
    /\ UNCHANGED <<sorting, pushed, seen>>
    /\ UNCHANGED <<toggles, app_vars>>

---------------------------------------------------------------------------
---------------------------------------------------------------------------
(* main *)

(* The paths load_dbc_window is called with: a DBC file, a path that       *)
(* cannot be read and a file that is not a DBC file.                       *)
DbcPaths == {"model.dbc", "missing.dbc", "malformed.dbc"}

(* PgnLibrary::from_dbc_file(path): Some of the definitions for Ok, None   *)
(* for Err.                                                                *)
from_dbc_file(path) == IF path = "model.dbc" THEN Some(DbcFile) ELSE None

(* No call of load_dbc_window has panicked. *)
running == IF loaded = <<>> THEN TRUE ELSE loaded[Len(loaded)] # "panic"

(* load_dbc_window(packets, timer, path), from main for the files of the   *)
(* command line and from dbc_window for the Load DBC... menu: the          *)
(* unwrap_or_else panics on Err; on Ok a window with a DbcModel of its own *)
(* is opened and Ok(()) is returned.                                       *)
load_dbc_window(path) ==
    /\ gui_idle
    /\ request = None
    /\ running
    /\ Len(loaded) < MaxLoads
    /\ loaded' = Append(loaded, IF from_dbc_file(path) = None THEN "panic" ELSE "Ok")
    /\ UNCHANGED <<packets, map, writer, time, line_length, pgns, rows, filter_i, new_rows>>
    /\ UNCHANGED <<sorting, reader, pushed, seen, toggles>>
    /\ UNCHANGED <<connection, mutex, copy_thread, request>>

(* The connection factories of the Connection menu. *)
Factories == {"adapter"}

(* The packet copy thread: connection.lock().unwrap() in the `if let`.     *)
(* With a connection the guard lives as long as the body of the `if let`,  *)
(* which iterates over the packets; with None it is dropped and the thread *)
(* sleeps.                                                                 *)
copy_lock ==
    /\ copy_thread = "sleeping"
    /\ mutex = "free"
    /\ IF connection # None
       THEN copy_thread' = "receiving" /\ mutex' = "copy"
       ELSE UNCHANGED <<copy_thread, mutex>>
    /\ UNCHANGED <<packets, map, writer, time, line_length, pgns, rows, filter_i, new_rows>>
    /\ UNCHANGED <<sorting, reader, pushed, seen, toggles, loaded, connection, request>>

(* The iterator of the connection ends: the connection was closed.  The    *)
(* body of the `if let` ends and the guard is dropped.                     *)
copy_iter_end ==
    /\ copy_thread = "receiving"
    /\ writer = None
    /\ copy_thread' = "sleeping"
    /\ mutex' = "free"
    /\ UNCHANGED <<packets, map, writer, time, line_length, pgns, rows, filter_i, new_rows>>
    /\ UNCHANGED <<sorting, reader, pushed, seen, toggles, loaded, connection, request>>

(* The Stop callback is called: *connection.lock().unwrap() = None, which  *)
(* first waits for the mutex.                                              *)
stop ==
    /\ gui_idle
    /\ request = None
    /\ request' = Some(<<"stop">>)
    /\ UNCHANGED <<packets, map, writer, time, line_length, pgns, rows, filter_i, new_rows>>
    /\ UNCHANGED <<sorting, reader, pushed, seen, toggles, loaded, connection, mutex,
                   copy_thread>>

(* The callback of an adapter of the Connection menu is called: it unloads *)
(* the old connection first.                                               *)
select_adapter(factory) ==
    /\ gui_idle
    /\ request = None
    /\ request' = Some(<<"unload", factory>>)
    /\ UNCHANGED <<packets, map, writer, time, line_length, pgns, rows, filter_i, new_rows>>
    /\ UNCHANGED <<sorting, reader, pushed, seen, toggles, loaded, connection, mutex,
                   copy_thread>>

(* The waiting callback gets the mutex, assigns the connection and drops   *)
(* the guard: None for Stop and for the unload; after the unload,          *)
(* factory.create() and Some(conn) for Ok, None for Err.                   *)
connection_lock ==
    /\ request # None
    /\ mutex = "free"
    /\ IF request[1][1] = "stop"
       THEN connection' = None /\ request' = None
       ELSE IF request[1][1] = "unload"
       THEN connection' = None /\ request' = Some(<<"create", request[1][2]>>)
       ELSE /\ \E created \in BOOLEAN :
                 connection' = IF created THEN Some(request[1][2]) ELSE None
            /\ request' = None
    /\ UNCHANGED <<packets, map, writer, time, line_length, pgns, rows, filter_i, new_rows>>
    /\ UNCHANGED <<sorting, reader, pushed, seen, toggles, loaded, mutex, copy_thread>>

(* The connection of the command line: cli.connection_descriptor.connect(). *)
CliConnection == "cli"

(* PacketRepo::default() and DbcModel::new(pgns, packets); the packet copy *)
(* thread has taken the connection of the command line.                    *)
Init ==
    /\ packets = <<>>
    /\ map = EmptyMap
    /\ writer = None
    /\ time = DurationMax
    /\ line_length = DefaultLineLength
    /\ pgns = DbcFile
    /\ rows = calc_rows(DbcFile)
    /\ filter_i = 0
    /\ new_rows = <<>>
    /\ sorting = None
    /\ reader = None
    /\ pushed = <<>>
    /\ seen = None
    /\ toggles = 0
    /\ loaded = <<>>
    /\ connection = Some(CliConnection)
    /\ mutex = "copy"
    /\ copy_thread = "receiving"
    /\ request = None

(* A bus whose packets arrive in any order of their timestamps. *)
NextAnyOrder ==
    \/ \E packet \in Frames : push_packets(packet)
    \/ push_map
    \/ clear
    \/ \E t \in Cursors : set_time(t)

SpecAnyOrder == Init /\ [][NextAnyOrder]_vars

(* A bus whose timestamps never decrease. *)
NextOrdered ==
    \/ \E packet \in Frames : packet.time >= last_time /\ push_packets(packet)
    \/ push_map
    \/ clear
    \/ \E t \in Cursors : set_time(t)
    \/ \E l \in LineLengths : set_line_length(l)

SpecOrdered == Init /\ [][NextOrdered]_vars

(* The repository with a table on it. *)
Next ==
    \/ \E packet \in Frames : Len(packets) < MaxTablePackets /\ push_packets(packet)
    \/ push_map
    \/ clear
    \/ \E t \in Cursors : set_time(t)
    \/ \E from, to \in SourceAddresses : map_address(from, to)
    \/ toggle_missing /\ UNCHANGED toggles
    \/ remove_missing_step

Spec == Init /\ [][Next]_vars

(* The frames of the sorted table: those of time 0. *)
SortFrames == {packet \in Frames : packet.time = 0}

(* The table sorted by its column headers while packets arrive. *)
NextSort ==
    \/ \E packet \in SortFrames : Len(packets) < MaxSortPackets /\ push_packets(packet)
    \/ push_map
    \/ clear
    \/ \E column \in Columns, order \in Orders : sort(column, order)
    \/ sort_key
    \/ sort_rows

SpecSort == Init /\ [][NextSort]_vars

(* Frames with complete payloads and with payloads too short to parse. *)
DecodeFrames == [id : FrameIds, time : 0..MaxTime, payload : Payloads \cup {ShortPayload}]

(* The table redrawn while such frames arrive and the cursor moves. *)
NextDecode ==
    \/ \E packet \in DecodeFrames :
          Len(packets) < MaxTablePackets /\ push_packets(packet)
    \/ push_map
    \/ clear
    \/ \E t \in Cursors : set_time(t)

SpecDecode == Init /\ [][NextDecode]_vars

(* The packet copy thread and the readers of the GUI thread. *)
NextReaders ==
    \/ \E packet \in Frames : Len(packets) < MaxTablePackets /\ push_packets(packet)
    \/ push_map
    \/ clear
    \/ \E path \in ReaderPathNames, i \in 1..Len(rows) : reader_begin(path, i)
    \/ reader_step

SpecReaders == Init /\ [][NextReaders]_vars

(* The Hide Inactive menu used while packets arrive and the log is cleared. *)
NextToggle ==
    \/ \E packet \in Frames : Len(packets) < MaxTablePackets /\ push_packets(packet)
    \/ push_map
    \/ clear
    \/ hide_inactive
    \/ remove_missing_step

SpecToggle == Init /\ [][NextToggle]_vars

(* DBC files loaded while packets arrive; a panic ends the process. *)
NextLoad ==
    \/ \E packet \in Frames :
          running /\ Len(packets) < MaxTablePackets /\ push_packets(packet)
    \/ running /\ push_map
    \/ running /\ clear
    \/ \E t \in Cursors : running /\ set_time(t)
    \/ \E path \in DbcPaths : load_dbc_window(path)

SpecLoad == Init /\ [][NextLoad]_vars

(* The packet copy thread and the Connection menu. *)
NextConnection ==
    \/ \E packet \in Frames :
          /\ copy_thread = "receiving"
          /\ Len(packets) < MaxTablePackets
          /\ push_packets(packet)
    \/ push_map
    \/ request = None /\ clear
    \/ copy_lock
    \/ copy_iter_end
    \/ stop
    \/ \E factory \in Factories : select_adapter(factory)
    \/ connection_lock

SpecConnection == Init /\ [][NextConnection]_vars

---------------------------------------------------------------------------
(* Definitions the properties share. *)

(* Non-decreasing in timestamp. *)
Sorted(v) == \A i \in 1..(Len(v) - 1) : v[i].time <= v[i + 1].time

(* Every normalized identifier of the model. *)
NormalizedIds == {normalize(id) : id \in FrameIds}

(* The packets of v whose normalized identifier is k, in the order of v. *)
RECURSIVE OfId(_, _)
OfId(v, k) ==
    IF v = <<>> THEN <<>>
    ELSE (IF normalize(Head(v).id) = k THEN <<Head(v)>> ELSE <<>>) \o OfId(Tail(v), k)

(* The packets of v with lo <= time <= hi, in the order of v. *)
RECURSIVE Between(_, _, _)
Between(v, lo, hi) ==
    IF v = <<>> THEN <<>>
    ELSE (IF lo <= Head(v).time /\ Head(v).time <= hi THEN <<Head(v)>> ELSE <<>>)
         \o Between(Tail(v), lo, hi)

(* The indices of v whose packet is at or before the cursor. *)
AtOrBefore(v) == {j \in 1..Len(v) : v[j].time <= time}

---------------------------------------------------------------------------
(* C1: when the timestamps of the pushed packets never decrease, with      *)
(* clear anywhere in between, the group get_for(id) returns is             *)
(* non-decreasing in timestamp for every normalized id, and so is the full *)
(* packet list.                                                            *)
C1_GroupsChronological ==
    /\ Sorted(packets)
    /\ \A id \in NormalizedIds : get_for(id) # None => Sorted(get_for(id)[1])

(* A group of three packets, of both priorities, with rising timestamps. *)
C1_Witness ==
    /\ writer = None
    /\ \E id \in DOMAIN map :
          /\ Len(map[id]) = 3
          /\ map[id][1].time < map[id][2].time
          /\ map[id][2].time < map[id][3].time
          /\ map[id][1].id # map[id][2].id

(* C2: whenever the write lock is free, for each normalized id k the group *)
(* of k is exactly the packets of the full list whose normalized id is k,  *)
(* in the same order, and a group exists only if it holds a packet.        *)
C2_IndexConsistent ==
    writer = None =>
        /\ \A k \in DOMAIN map : k \in NormalizedIds /\ map[k] # <<>>
        /\ \A k \in NormalizedIds :
              /\ k \in DOMAIN map <=> OfId(packets, k) # <<>>
              /\ k \in DOMAIN map => map[k] = OfId(packets, k)

(* Two groups, one of them with both priorities, interleaved in the list. *)
C2_Witness ==
    /\ writer = None
    /\ Len(packets) = 3
    /\ Cardinality(DOMAIN map) = 2
    /\ normalize(packets[1].id) = normalize(packets[3].id)
    /\ packets[1].id # packets[3].id
    /\ normalize(packets[2].id) # normalize(packets[1].id)

(* C3: with the cursor at Duration::MAX, last_packet(id) is the last       *)
(* packet of the group of id when the group is non-empty, and None when    *)
(* the id has no packets, after any pushes and clears.                     *)
C3_LiveIsLast ==
    time = DurationMax =>
        \A id \in NormalizedIds :
            last_packet(id) =
                IF id \in DOMAIN map /\ map[id] # <<>>
                THEN Some(map[id][Len(map[id])])
                ELSE None

(* Live cursor, a group that is not chronological, another id unseen. *)
C3_Witness ==
    /\ time = DurationMax
    /\ writer = None
    /\ \E id \in DOMAIN map :
          /\ Len(map[id]) >= 2
          /\ ~Sorted(map[id])
          /\ last_packet(id) = Some(map[id][Len(map[id])])
    /\ \E id \in NormalizedIds : id \notin DOMAIN map /\ last_packet(id) = None

(* C4, as claimed: last_packet(id) is a packet of the id at or before the  *)
(* cursor, no packet of the group is later than it and still at or before  *)
(* the cursor, and it is None exactly when the id was never seen or no     *)
(* packet of the group is at or before the cursor.                         *)
C4_Maximal_Original ==
    \A id \in NormalizedIds :
        LET r == last_packet(id)
        IN /\ r = None <=> (id \notin DOMAIN map \/ AtOrBefore(map[id]) = {})
           /\ r # None =>
                 /\ normalize(r[1].id) = id
                 /\ r[1].time <= time
                 /\ \A j \in AtOrBefore(map[id]) : map[id][j].time <= r[1].time

(* C4, amended: the same, with the maximality only for a group that is     *)
(* non-decreasing in timestamp.                                            *)
C4_Maximal ==
    \A id \in NormalizedIds :
        LET r == last_packet(id)
        IN /\ r = None <=> (id \notin DOMAIN map \/ AtOrBefore(map[id]) = {})
           /\ r # None =>
                 /\ normalize(r[1].id) = id
                 /\ r[1].time <= time
                 /\ Sorted(map[id]) =>
                       \A j \in AtOrBefore(map[id]) : map[id][j].time <= r[1].time

(* A chronological group with a packet before the one found and one after  *)
(* the cursor; and a group wholly after the cursor.                         *)
C4_Witness ==
    /\ time # DurationMax
    /\ \E id \in DOMAIN map :
          /\ Sorted(map[id])
          /\ Len(map[id]) = 3
          /\ last_packet_index(id) = 2
          /\ map[id][1].time < map[id][2].time
          /\ map[id][3].time > time

(* C5, as claimed: when several packets of an id share the greatest        *)
(* timestamp at or before the cursor, last_packet returns the one with the *)
(* highest index in the group.                                             *)
C5_TieLast_Original ==
    \A id \in DOMAIN map :
        LET v == map[id]
            greatest == {j \in AtOrBefore(v) :
                            \A k \in AtOrBefore(v) : v[k].time <= v[j].time}
        IN Cardinality(greatest) >= 2 =>
              \A j \in greatest : j <= last_packet_index(id)
                                  /\ last_packet_index(id) \in greatest

(* C5, amended: the same for a group that is non-decreasing in timestamp. *)
C5_TieLast ==
    \A id \in DOMAIN map :
        LET v == map[id]
            greatest == {j \in AtOrBefore(v) :
                            \A k \in AtOrBefore(v) : v[k].time <= v[j].time}
        IN Sorted(v) /\ Cardinality(greatest) >= 2 =>
              \A j \in greatest : j <= last_packet_index(id)
                                  /\ last_packet_index(id) \in greatest

(* Two packets with one timestamp, the second found, a third after the     *)
(* cursor.                                                                 *)
C5_Witness ==
    \E id \in DOMAIN map :
        /\ Len(map[id]) = 3
        /\ Sorted(map[id])
        /\ map[id][1].time = map[id][2].time
        /\ map[id][2].time = time
        /\ map[id][3].time > time
        /\ last_packet_index(id) = 2

WindowLow == IF time > line_length THEN time - line_length ELSE 0

WindowHigh == IF time <= last_time THEN time ELSE last_time

(* C7: after non-decreasing pushes, for every cursor and window length,    *)
(* the chart of a row is computed from exactly the packets of the row's id *)
(* with max(0, cursor - window) <= time <= min(cursor, last_time), both    *)
(* bounds inclusive, as one contiguous sub-slice in arrival order.         *)
C7_WindowInclusive ==
    writer = None =>
        \A i \in 1..Len(rows) :
            LET id == normalize(rows[i].pgn.id)
            IN id \in DOMAIN map =>
                  /\ chart_slice(map[id]) = Between(map[id], WindowLow, WindowHigh)
                  /\ chart(rows[i]) =
                        Some(filter_map_decode(rows[i],
                                Between(map[id], WindowLow, WindowHigh)))

(* C8, as claimed: when the id of a row has no packets at all, or the      *)
(* cursor is before the first packet of the id, the chart is an empty      *)
(* series, not an absent result or a failure.                              *)
C8_EmptySeries_Original ==
    writer = None =>
        \A i \in 1..Len(rows) :
            LET id == normalize(rows[i].pgn.id)
            IN (id \notin DOMAIN map \/ time < map[id][1].time) =>
                  chart(rows[i]) = Some(<<>>)

(* C8, amended: after non-decreasing pushes, when the cursor is before the *)
(* first packet of the id the chart is an empty series; when the id has no *)
(* packets at all the chart is absent (None); neither is a failure.        *)
C8_EmptySeries ==
    writer = None =>
        \A i \in 1..Len(rows) :
            LET id == normalize(rows[i].pgn.id)
            IN /\ id \notin DOMAIN map => chart(rows[i]) = None
               /\ (id \in DOMAIN map /\ time < map[id][1].time) =>
                     chart(rows[i]) = Some(<<>>)

(* One row's id has two packets after the cursor, the other row's id none. *)
C8_Witness ==
    /\ writer = None
    /\ \E i \in 1..Len(rows) :
          LET id == normalize(rows[i].pgn.id)
          IN /\ id \in DOMAIN map
             /\ Len(map[id]) = 2
             /\ time < map[id][1].time
             /\ chart(rows[i]) = Some(<<>>)
    /\ \E i \in 1..Len(rows) :
          /\ normalize(rows[i].pgn.id) \notin DOMAIN map
          /\ chart(rows[i]) = None

(* Every identifier a query of the model can be made with. *)
QueryIds ==
    NormalizedIds \cup FrameIds \cup DOMAIN map
    \cup {normalize(J1939Id(6, 65265, a)) : a \in SourceAddresses}

(* Every query gives its answer for "no data". *)
NoData ==
    /\ \A id \in QueryIds : get_for(id) = None
    /\ packets = <<>>
    /\ \A i \in 1..Len(rows) :
          cell(i, 4) = Some(NoPacket) /\ cell(i, 6) = Some(NoPacket)
    /\ first_time = 0
    /\ last_time = 0

(* C9: after clear(), until the next push begins, get_for(id) is None for  *)
(* every id, the packet list is empty, the value and packet cells of every *)
(* row read "no packet", and first_time() and last_time() are zero.        *)
C9_ClearGivesNoData ==
    [][/\ clear => NoData'
       /\ (NoData /\ writer' = None) => NoData']_vars

(* The repository is empty while the rows are a filtered list that kept a  *)
(* row: packets were there when the filter ran, and clear came after it.   *)
C9_Witness ==
    /\ NoData
    /\ filter_i = 0
    /\ Len(rows) \in {1, 2}
    /\ time # DurationMax

(* The identifier id with its low byte set to t. *)
Retagged(id, t) == (id \div 256) * 256 + t

---------------------------------------------------------------------------
(* C11: after map_address changes the identifier of a message, every       *)
(* active row carries a message of the current schema: the identifier of   *)
(* the row (shown in the ID and SA cells, used for the lookups) is the     *)
(* identifier that message has in the remapped schema.                     *)
C11_RowsFollowSchema ==
    [][\A from, to \in SourceAddresses : (pgns' # pgns /\ map_address(from, to)) =>
          \A i \in 1..Len(rows') :
              \E j \in 1..Len(pgns') : rows'[i].pgn = pgns'[j]]_vars

(* C12: map_address(from, to) sets the low byte of the id of the messages  *)
(* whose low id byte is `from` to `to` and keeps their upper 24 bits; the  *)
(* other messages, every signal definition, the number and order of the    *)
(* messages, the cursor, the window length and the repository are          *)
(* unchanged.                                                              *)
C12_MapAddressFrame ==
    [][\A from, to \in SourceAddresses : (pgns' # pgns /\ map_address(from, to)) =>
          /\ Len(pgns') = Len(pgns)
          /\ \A i \in 1..Len(pgns) :
                /\ pgns'[i].spns = pgns[i].spns
                /\ IF pgns[i].id % 256 = from
                   THEN /\ pgns'[i].id % 256 = to
                        /\ pgns'[i].id \div 256 = pgns[i].id \div 256
                   ELSE pgns'[i] = pgns[i]
          /\ UNCHANGED <<time, line_length, packets, map>>]_vars

(* One message was remapped and the other was not, the repository holds    *)
(* frames and the cursor is not live.                                      *)
C12_Witness ==
    /\ \E i \in 1..Len(pgns) : pgns[i].id # DbcFile[i].id
    /\ \E i \in 1..Len(pgns) : pgns[i].id = DbcFile[i].id
    /\ Len(packets) = 2
    /\ time # DurationMax

---------------------------------------------------------------------------
(* The rows of a list, as a set. *)
RowSet(rws) == {rws[i] : i \in 1..Len(rws)}

(* The rows of the full cross product of the schema defs whose normalized  *)
(* identifier has a group in the index m.                                  *)
PresentRows(defs, m) ==
    {r \in RowSet(calc_rows(defs)) : normalize(r.pgn.id) \in DOMAIN m}

(* C13: whenever the presence filter has been applied, the active rows are *)
(* exactly the rows of the full cross product of the current schema whose  *)
(* normalized identifier has at least one frame in the repository at that  *)
(* moment.                                                                 *)
C13_FilterFromSchema ==
    [][(filter_i > 0 /\ filter_i' = 0) =>
          /\ RowSet(rows') = PresentRows(pgns', map')
          /\ Len(rows') = Cardinality(PresentRows(pgns', map'))]_vars

(* remove_missing run on the rows rws with no push in between: the rows    *)
(* whose normalized identifier has a group.                                *)
remove_missing(rws) ==
    SelectSeq(rws, LAMBDA row : get_for(normalize(row.pgn.id)) # None)

(* restore_missing: self.rows = calc_rows(&self.pgns). *)
restore_missing == calc_rows(pgns)

(* toggle_missing that filters whatever the list is. *)
toggle_missing_rows_no_restore(rws) == remove_missing(rws)

(* self.rows after toggle_missing run on the rows rws with no push in      *)
(* between.                                                                *)
toggle_missing_rows(rws) ==
    IF Len(calc_rows(pgns)) = Len(rws) THEN remove_missing(rws)
    ELSE restore_missing

(* One row for each signal of each message of the schema, and no other. *)
IsFullCrossProduct(rws) ==
    /\ Len(rws) = Cardinality({<<j, i>> \in (1..Len(pgns)) \X (1..2) :
                                  i <= Len(pgns[j].spns)})
    /\ \A j \in 1..Len(pgns) : \A i \in 1..Len(pgns[j].spns) :
          \E n \in 1..Len(rws) : rws[n] = [spn |-> pgns[j].spns[i], pgn |-> pgns[j]]

(* C14: restore_missing yields the full cross product of the current       *)
(* schema whatever the rows were; toggling from the full list to the       *)
(* filtered one and back, the repository unchanged, yields the full cross  *)
(* product again; and filtering twice, the repository unchanged, gives the *)
(* rows that filtering once gives.                                         *)
C14_ToggleReversible ==
    (writer = None /\ filter_i = 0) =>
        /\ IsFullCrossProduct(restore_missing)
        /\ Len(restore_missing) # Len(rows) =>
              toggle_missing_rows(rows) = restore_missing
        /\ IsFullCrossProduct(rows) =>
              IsFullCrossProduct(toggle_missing_rows(toggle_missing_rows(rows)))
        /\ remove_missing(remove_missing(rows)) = remove_missing(rows)

(* The filter has run and kept some rows and dropped others; the next      *)
(* toggle restores the full list, and the one after it filters again.      *)
C14_Witness ==
    /\ writer = None /\ filter_i = 0
    /\ Len(rows) \in 1..(Len(restore_missing) - 1)
    /\ rows = remove_missing(restore_missing)
    /\ toggle_missing_rows(rows) = restore_missing
    /\ toggle_missing_rows(toggle_missing_rows(rows)) = rows

---------------------------------------------------------------------------
(* The index of a row in a list that holds it. *)
Pos(rws, row) == CHOOSE n \in 1..Len(rws) : rws[n] = row

(* Two keys of a column compare Equal. *)
KeysEqual(column, a, b) == key_bytes(column, a) = key_bytes(column, b)

(* C15: after sort(column, Ascending) and after sort(column, Descending),  *)
(* any two rows whose sort keys are equal are in the relative order they   *)
(* had immediately before the sort.                                        *)
C15_StableSort ==
    [][(sorting # None /\ sorting' = None) =>
          \A i, j \in 1..Len(rows) :
              (/\ i < j
               /\ KeysEqual(sorting[1].column, sorting[1].values[rows[i]],
                            sorting[1].values[rows[j]]))
              => Pos(rows', rows[i]) < Pos(rows', rows[j])]_vars

(* C16: sorting twice in a row by one column and one direction, every row  *)
(* with the same key in both sorts, gives the same row order both times.   *)
C16_SortTwice ==
    (sorting # None /\ sorting[1].i > Len(rows)) =>
        LET s == sorting[1]
            once == sorted_rows(rows, s.values, s.column, s.order)
        IN sorted_rows(once, s.values, s.column, s.order) = once

(* C17: the key of every active row is taken once, before any comparison   *)
(* and any change of the row list; the order sort leaves is that of the    *)
(* keys taken, non-decreasing for Ascending and non-increasing for         *)
(* Descending, whatever was pushed after a key was taken.                  *)
C17_CapturedKeys ==
    [][/\ (sorting # None /\ sorting' # None) => rows' = rows
       /\ (sorting # None /\ sorting' = None) =>
             LET s == sorting[1]
             IN /\ DOMAIN s.values = {rows[i] : i \in 1..Len(rows)}
                /\ Len(rows') = Len(rows)
                /\ {rows'[i] : i \in 1..Len(rows)} = {rows[i] : i \in 1..Len(rows)}
                /\ \A n \in 1..(Len(rows') - 1) :
                      IF s.order = "Ascending"
                      THEN cmp_le(s.column, s.values[rows'[n]], s.values[rows'[n + 1]])
                      ELSE cmp_le(s.column, s.values[rows'[n + 1]], s.values[rows'[n]])]_vars

(* Every key is taken, a push came after the key of a row was taken and    *)
(* changed what the row shows, and the order by the keys taken is not the  *)
(* order by the keys the rows have now.                                    *)
C17_Witness ==
    /\ sorting # None
    /\ writer = None
    /\ sorting[1].i > Len(rows)
    /\ sorting[1].column \in {4, 6}
    /\ \E i \in 1..Len(rows) :
          ~KeysEqual(sorting[1].column, sorting[1].values[rows[i]],
                     extract_fn(sorting[1].column, rows[i]))
    /\ sort_with(rows, sorting[1].values, sorting[1].column)
       # sort_with_live_keys(rows, sorting[1].values, sorting[1].column)

---------------------------------------------------------------------------
(* A cell text is the sentinel s. *)
IsSentinel(text, s) == Len(text) = 1 /\ text[1] = s[1]

(* C18: for every valid row index the value cell is a text; it is "no      *)
(* packet" exactly when last_packet finds no packet of the row's           *)
(* normalized id at or before the cursor; otherwise it is "unable to       *)
(* parse" exactly when decoding the packet found fails; otherwise it is    *)
(* the decoded value with three decimals followed by the unit.             *)
C18_ValueCell ==
    writer = None =>
        \A i \in 1..Len(rows) :
            LET id == normalize(rows[i].pgn.id)
                found == IF id \in DOMAIN map THEN AtOrBefore(map[id]) ELSE {}
            IN /\ cell(i, 4) # None
               /\ IsSentinel(cell(i, 4)[1], NoPacket) <=> found = {}
               /\ found # {} =>
                     LET packet == last_packet(id)[1]
                     IN /\ IsSentinel(cell(i, 4)[1], UnableToParse)
                           <=> decode(rows[i], packet) = None
                        /\ decode(rows[i], packet) # None =>
                              /\ Len(cell(i, 4)[1]) = 2
                              /\ cell(i, 4)[1][1] = decode(rows[i], packet)[1] * 1000
                              /\ cell(i, 4)[1][2] = rows[i].spn.units

(* The cursor is at a packet too short to parse while a complete packet   *)
(* of the same id lies after the cursor: the rows of that id show "unable  *)
(* to parse"; the row of the other id shows "no packet".                   *)
C18_Witness ==
    /\ writer = None
    /\ time # DurationMax
    /\ IsSentinel(cell(1, 4)[1], UnableToParse)
    /\ \E j \in 1..Len(map[normalize(rows[1].pgn.id)]) :
          /\ map[normalize(rows[1].pgn.id)][j].payload # ShortPayload
          /\ map[normalize(rows[1].pgn.id)][j].time > time
    /\ IsSentinel(cell(3, 4)[1], NoPacket)

---------------------------------------------------------------------------
(* C19: no reader path decodes a signal, formats a string or writes a file *)
(* while it holds the read lock of the repository.                         *)
C19_NoWorkUnderLock ==
    reader # None =>
        (reader_at[1] \in {"decode", "format", "file output"} => ~reader_at[2])

(* v is a prefix of w. *)
IsPrefix(v, w) == Len(v) <= Len(w) /\ SubSeq(w, 1, Len(v)) = v

(* C20: whenever a reader takes the read lock, the list it sees is a       *)
(* prefix of the packets pushed since the last clear, in their order, and  *)
(* the group of each id is a prefix of the pushed packets of that id; and  *)
(* what the reader saw the time before, with no clear since, is a prefix   *)
(* of what it sees now.                                                    *)
C20_ReadsArePrefixes ==
    [][(reader = None /\ reader' # None) =>
          /\ IsPrefix(seen'[1].packets, pushed)
          /\ \A k \in DOMAIN seen'[1].map :
                IsPrefix(seen'[1].map[k], OfId(pushed, k))
          /\ seen # None =>
                /\ IsPrefix(seen[1].packets, seen'[1].packets)
                /\ \A k \in DOMAIN seen[1].map :
                      /\ k \in DOMAIN seen'[1].map
                      /\ IsPrefix(seen[1].map[k], seen'[1].map[k])]_vars

(* The reader has read twice with no clear in between, and two packets of  *)
(* one id, with different priorities, were pushed between its reads.       *)
C20_Witness ==
    /\ reader # None
    /\ seen # None
    /\ seen[1].packets = packets
    /\ Len(packets) = 2
    /\ DOMAIN map = {normalize(packets[1].id)}
    /\ packets[1].id # packets[2].id
    /\ packets[1].time > packets[2].time

---------------------------------------------------------------------------
(* C24: after non-decreasing pushes, for every cursor and window length,   *)
(* the two indices of the chart of every group satisfy start_index <=      *)
(* end_index <= length of the group, and the sub-slice of no row panics.   *)
C24_ChartIndices ==
    writer = None =>
        /\ \A id \in DOMAIN map :
              /\ start_index(map[id]) <= end_index(map[id])
              /\ end_index(map[id]) <= Len(map[id])
        /\ \A i \in 1..Len(rows) : chart(rows[i]) # SlicePanic

(* The group of a row has packets before the range, in it and after it. *)
C24_Witness ==
    /\ writer = None
    /\ \E i \in 1..Len(rows) :
          LET id == normalize(rows[i].pgn.id)
          IN /\ id \in DOMAIN map
             /\ 0 < start_index(map[id])
             /\ start_index(map[id]) < end_index(map[id])
             /\ end_index(map[id]) < Len(map[id])
             /\ chart(rows[i]) # None

(* The number of times a row occurs in a list. *)
Count(rws, row) == Cardinality({n \in 1..Len(rws) : rws[n] = row})

(* C26: sort only permutes the active rows: every step of sort, for every  *)
(* column 0..7 and every order, leaves the multiset of the active rows,    *)
(* the schema, the cursor, the window length and what the repository holds *)
(* as they were; with Order::None the order of the rows is unchanged too.  *)
C26_SortPermutes ==
    [][/\ (sorting' # sorting) =>
             /\ \A row \in RowSet(rows) \cup RowSet(rows') :
                   Count(rows', row) = Count(rows, row)
             /\ Len(rows') = Len(rows)
             /\ UNCHANGED <<pgns, time, line_length, packets, map, writer>>
       /\ \A column \in Columns : sort(column, "None") => UNCHANGED vars]_vars

(* A sort has ended and left the rows in another order than calc_rows,     *)
(* with packets in the repository.                                         *)
C26_Witness ==
    /\ sorting = None
    /\ writer = None
    /\ packets # <<>>
    /\ rows # calc_rows(pgns)
    /\ rows[1] = calc_rows(pgns)[3]
    /\ Len(rows) = Len(calc_rows(pgns))

---------------------------------------------------------------------------
(* C22: counting the calls of toggle_missing from construction, when an    *)
(* even-numbered call returns the active rows are the full cross product   *)
(* of the schema, and when an odd-numbered call returns they are the rows  *)
(* of the cross product whose identifier has a frame in the repository,    *)
(* whatever pushes and clears came in between.                             *)
C22_ToggleAlternates ==
    [][(filter_i' = 0 /\ (toggles' # toggles \/ filter_i > 0)) =>
          IF toggles' = 0
          THEN IsFullCrossProduct(rows')
          ELSE /\ RowSet(rows') = PresentRows(pgns', map')
               /\ Len(rows') = Cardinality(PresentRows(pgns', map'))]_vars

(* C23: when remove_missing returns, the rows it was given that share a    *)
(* message identifier are all kept or all removed, also when packets were  *)
(* pushed while it ran.                                                    *)
C23_FilterAtomic ==
    [][(filter_i > 0 /\ filter_i' = 0) =>
          \A i, j \in 1..Len(rows) :
              rows[i].pgn.id = rows[j].pgn.id =>
                  (rows[i] \in RowSet(rows') <=> rows[j] \in RowSet(rows'))]_vars

---------------------------------------------------------------------------
(* C21: a call of load_dbc_window with a file that cannot be read or       *)
(* parsed returns an error to its caller: it does not panic, and the       *)
(* repository and the open table are unchanged.                            *)
C21_LoadErrorReturned ==
    [][\A path \in DbcPaths :
          (loaded' # loaded /\ load_dbc_window(path) /\ from_dbc_file(path) = None) =>
              /\ loaded'[Len(loaded')] = "Err"
              /\ UNCHANGED <<packets, map, pgns, rows, time, line_length>>]_vars

---------------------------------------------------------------------------
(* C25: the packet copy thread does not hold the mutex of the connection   *)
(* while it iterates over the incoming packets, so a Stop request or an    *)
(* adapter switch that waits for the mutex is never kept waiting by a      *)
(* thread that is receiving: the mutex is free for it.                     *)
C25_StopNotBlocked ==
    (request # None /\ copy_thread = "receiving") => mutex = "free"

====
